---------------------------- MODULE Spec2Model ----------------------------
(***************************************************************************)
(* Model of consumers/json_consumer_gjrich.py: a Kafka consumer that      *)
(* counts messages per author, keeps a running author-weighted sentiment  *)
(* score rounded to two decimals, and logs an alert whenever the score    *)
(* enters a sentiment range other than the one last alerted.              *)
(*                                                                         *)
(* Numbers.  Sentiment polarities are written in thousandths (1000 is     *)
(* 1.0), author weights in tenths (4 is 0.4), and sentiment_status and    *)
(* weighted_sentiment in ten-thousandths (10000 is 1.0), so that the      *)
(* product of a polarity and a weight is exact and round(x, 2) is a real  *)
(* operation on the running total.  The polarities fed to the model never *)
(* put the total exactly half way between two hundredths, where the       *)
(* result of Python's round depends on the binary value of the float.     *)
(***************************************************************************)
EXTENDS Integers, Sequences, FiniteSets, TLC

\* ------------------------------------------------------------------ bounds

\* Number of records the consumer receives in a run of the model.
MaxRecords == 5

\* Number of records the consumer receives in a run of the scenario.
MaxScenarioRecords == 9

\* Number of records the consumer receives in a long run.
MaxLongRecords == 11

\* Number of records of a batch.
MaxBatch == 4

\* Number of records the partitions deliver in a run.
MaxSerialRecords == 4

\* --------------------------------------------------------- module globals

\* last_alert_range = None, and current_range = None
None == 0

\* round(sentiment_status, 2): ten-thousandths in one hundredth
Hundredth == 100

\* ten-thousandths in one thousandth: a polarity used unweighted
PolarityUnit == 10

thresholds == <<-2, -1, 1, 2>>

alert_messages ==
    (-2 :> "mourning") @@ (-1 :> "black knight") @@
    (1 :> "bountiful harvest") @@ (2 :> "grand feast")

author_weights ==
    ("Isolde the Daft" :> 4) @@ ("Eleanor the Fair" :> 5) @@
    ("Cedric Sunblade" :> 6) @@ ("Tristan Cuthbert" :> 7) @@
    ("Alaric the Bold" :> 8)

\* ----------------------------------------------------------------- inputs

\* message_dict has no "author" key
Absent == "<absent>"

\* message_dict["author"] is a JSON array or object (an unhashable value)
Unhashable == "<unhashable>"

\* Values of the "author" field in the well-formed records of the model.
InputAuthors == {"Isolde the Daft", "Eve", Absent}

\* Polarities TextBlob gives to the headlines of the model, in thousandths.
Polarities == {-1000, 667, 1000}

\* A raw Kafka message, by what json.loads and TextBlob make of it:
\*   json   "invalid" (not JSON), "nondict" (JSON, not an object), "dict"
\*   author the "author" field, Absent or Unhashable
\*   text   the "message" field: "absent", "nonstring" or "string"
\*   score  the polarity TextBlob gives to the "message" string
RawMessages ==
    [json : {"invalid", "nondict"}, author : {Absent}, text : {"absent"}, score : {0}]
    \cup [json : {"dict"}, author : {Unhashable}, text : {"string"}, score : {1000}]
    \cup [json : {"dict"}, author : InputAuthors, text : {"absent", "nonstring"}, score : {0}]
    \cup [json : {"dict"}, author : InputAuthors, text : {"string"}, score : Polarities]

\* The polarities of the headlines of the scenario, in order of arrival
\* (a scorer whose polarity is not confined to [-1, 1]).
ScenarioScores == <<1000, 1000, 1000, -5000, 1500, 600, 1000>>

\* The records the consumer can yield in the scenario once k headlines are
\* scored: the next headline from an author without a configured weight,
\* or a record that is not a JSON object.
ScenarioMessages(k) ==
    [json : {"invalid", "nondict"}, author : {Absent}, text : {"absent"}, score : {0}]
    \cup IF k < Len(ScenarioScores)
         THEN [json : {"dict"}, author : {"Eve", Absent}, text : {"string"},
               score : {ScenarioScores[k + 1]}]
         ELSE {}

\* The records of a long run: headlines of two authors without a configured
\* weight, a headline that is not a string, an object without "message" and
\* a record that is not JSON.
LongMessages ==
    [json : {"dict"}, author : {"Eve", Absent}, text : {"string"}, score : {1000}]
    \cup [json : {"dict"}, author : {Absent}, text : {"string"}, score : {-1000}]
    \cup [json : {"dict"}, author : {"Eve"}, text : {"nonstring", "absent"}, score : {0}]
    \cup [json : {"invalid"}, author : {Absent}, text : {"absent"}, score : {0}]

\* The records of a batch: headlines of two authors, an object without
\* "message" and a record that is not JSON.
BatchMessages ==
    [json : {"dict"}, author : {Absent}, text : {"string"}, score : {1000, -1000}]
    \cup [json : {"dict"}, author : {"Eve"}, text : {"string", "absent"}, score : {1000}]
    \cup [json : {"invalid"}, author : {Absent}, text : {"absent"}, score : {0}]

\* The partitions of the topic assigned to the consumer.
Sources == {"partition 0", "partition 1"}

\* The records of the partitions: headlines whose weighted polarity is a
\* whole number of hundredths, and a record that is not JSON.
SerialMessages ==
    [json : {"dict"}, author : {Absent, "Isolde the Daft"}, text : {"string"},
     score : {1000, -1000}]
    \cup [json : {"invalid"}, author : {Absent}, text : {"absent"}, score : {0}]

NoMessage == [json |-> "none", author |-> Absent, text |-> "absent", score |-> 0]


\* ------------------------------------------------------------------ state

VARIABLES
    author_counts,       \* defaultdict(int): a function on the keys present
    sentiment_status,    \* running total, in ten-thousandths
    last_alert_range,    \* None or the range of the last alert logged
    message_counter,     \* messages folded into sentiment_status
    pc,                  \* main: "polling" in the for loop, "closed" after it
    stop_reason,         \* what ended the loop: "none" while it runs
    message,             \* the record process_message was last called with
    outcome,             \* how that call went (see Outcome)
    weighted_sentiment,  \* its local weighted_sentiment
    current_range,       \* its local current_range
    pre,                 \* the globals as they were at its start
    alerts,              \* the alert texts logged with logger.warning, in order
    summaries,           \* number of author-count summaries logged
    exact_sum,           \* sum of all weighted_sentiment so far, never rounded
    n_records,           \* records received so far
    n_decoded,           \* records that were a JSON object with a "message"
    history,             \* the records of a batch, in order of arrival
    frames               \* per partition, the call of process_message on its
                         \* record: the statement it is at and its locals

vars == <<author_counts, sentiment_status, last_alert_range, message_counter,
          pc, stop_reason, message, outcome, weighted_sentiment, current_range,
          pre, alerts, summaries, exact_sum, n_records, n_decoded, history,
          frames>>

\* --------------------------------------------------------- process_message

\* author = message_dict.get("author", "unknown")
AuthorOf(m) == IF m.author = Absent THEN "unknown" ELSE m.author

\* Variant: the table is replaced by one that holds the author alone.
Increment_DropOthers(counts, author) ==
    [a \in {author} |-> (IF a \in DOMAIN counts THEN counts[a] ELSE 0) + 1]

\* author_counts[author] += 1 on a defaultdict(int): a missing key starts at 0
Increment(counts, author) ==
    [a \in DOMAIN counts \cup {author} |->
        IF a = author
        THEN (IF a \in DOMAIN counts THEN counts[a] ELSE 0) + 1
        ELSE counts[a]]

\* Variant: the score is divided by the configured weight.
WeightedSentiment_Divide(author, score) ==
    IF author \in DOMAIN author_weights
    THEN (score * 100) \div author_weights[author]
    ELSE score * PolarityUnit

\* Variant: an author without a configured weight contributes nothing.
WeightedSentiment_ZeroDefault(author, score) ==
    IF author \in DOMAIN author_weights
    THEN score * author_weights[author]
    ELSE 0

\* if author in author_weights: score * author_weights[author], else score
WeightedSentiment(author, score) ==
    IF author \in DOMAIN author_weights
    THEN score * author_weights[author]
    ELSE score * PolarityUnit

\* Variant: the total is cut to two decimals instead of rounded.
Round2_Truncate(x) == (x \div Hundredth) * Hundredth

\* round(x, 2): the nearest hundredth, a tie going to the even hundredth
Round2(x) ==
    LET q == x \div Hundredth
        r == x % Hundredth
    IN  IF 2 * r < Hundredth THEN q * Hundredth
        ELSE IF 2 * r > Hundredth THEN (q + 1) * Hundredth
        ELSE IF q % 2 = 0 THEN q * Hundredth ELSE (q + 1) * Hundredth

\* Variant: 2.0 belongs to the very positive range.
RangeTest_StrictUpper(s) ==
    IF -10000 >= s /\ s > -20000 THEN -1
    ELSE IF -20000 >= s THEN -2
    ELSE IF 10000 <= s /\ s < 20000 THEN 1
    ELSE IF 20000 <= s THEN 2
    ELSE None

\* Variant: -2.0 belongs to the negative range.
RangeTest_StrictLower(s) ==
    IF -10000 >= s /\ s >= -20000 THEN -1
    ELSE IF -20000 > s THEN -2
    ELSE IF 10000 <= s /\ s <= 20000 THEN 1
    ELSE IF 20000 < s THEN 2
    ELSE None

\* One pass of the body of "for threshold in thresholds": the range it
\* breaks with, or None when no condition holds and the loop goes on.
RangeTest(s) ==
    IF -10000 >= s /\ s > -20000 THEN -1
    ELSE IF -20000 >= s THEN -2
    ELSE IF 10000 <= s /\ s <= 20000 THEN 1
    ELSE IF 20000 < s THEN 2
    ELSE None

\* The loop over thresholds: the first pass that breaks decides.
RECURSIVE RangeLoop(_, _)
RangeLoop(s, i) ==
    IF i > Len(thresholds) THEN None
    ELSE IF RangeTest(s) # None THEN RangeTest(s)
    ELSE RangeLoop(s, i + 1)

CurrentRange(s) == RangeLoop(s, 1)

\* Variant: the range is compared with the range of the total before the
\* message instead of the range last alerted.
ShouldAlert_VsPreviousRange(range, last) ==
    range # None /\ range # CurrentRange(sentiment_status)

\* Variant: an alert for every message that leaves the total in a range.
ShouldAlert_EveryNonNeutral(range, last) == range # None

\* if current_range is not None and last_alert_range != current_range
ShouldAlert(range, last) == range # None /\ last # range

\* Variant: only the first alert of a run is remembered.
NextAlertRange_KeepFirst(range, last, alert) ==
    IF alert /\ last = None THEN range ELSE last

\* Variant: a neutral total forgets the range last alerted.
NextAlertRange_ClearOnNeutral(range, last, alert) ==
    IF alert THEN range ELSE IF range = None THEN None ELSE last

\* last_alert_range = current_range, executed only in the body of that if
NextAlertRange(range, last, alert) == IF alert THEN range ELSE last

\* Variant: the alert is logged inside the loop, once per threshold.
AlertTexts_PerThreshold(range, alert) ==
    IF alert THEN [i \in 1..Len(thresholds) |-> alert_messages[range]] ELSE <<>>

\* logger.warning(alert_messages[current_range]): the texts one call logs
AlertTexts(range, alert) == IF alert THEN <<alert_messages[range]>> ELSE <<>>

\* Variant: the summary indexes the table by every configured author.
SummaryRead_IndexConfigured(counts) ==
    [a \in DOMAIN counts \cup DOMAIN author_weights |->
        IF a \in DOMAIN counts THEN counts[a] ELSE 0]

\* sum(author_counts.values()) and dict(author_counts): the table after the
\* summary has read it
SummaryRead(counts) == counts

\* Variant: the summary is due every tenth record, scored or not.
SummaryDue_EveryTenthRecord(counter) == (n_records + 1) % 10 = 0

\* if message_counter % 10 == 0
SummaryDue(counter) == counter % 10 = 0

\* The statement at which process_message leaves its try block:
\*   "JSONDecodeError"  json.loads raises
\*   "not_dict"         the else branch of isinstance(message_dict, dict)
\*   "unhashable"       author_counts[author] raises TypeError
\*   "KeyError"         message_dict['message'] raises
\*   "TypeError"        TextBlob(news_headline) raises on a non-string
\*   "scored"           the end of the try block
Outcome(m) ==
    IF m.json = "invalid" THEN "JSONDecodeError"
    ELSE IF m.json = "nondict" THEN "not_dict"
    ELSE IF m.author = Unhashable THEN "unhashable"
    ELSE IF m.text = "absent" THEN "KeyError"
    ELSE IF m.text = "nonstring" THEN "TypeError"
    ELSE "scored"

\* The exceptions an outcome raises inside the try block.
Raises(o) == o \in {"JSONDecodeError", "unhashable", "KeyError", "TypeError"}

\* Variant: the handler "except Exception" is missing.
Caught_OnlyJSONDecodeError(o) == o = "JSONDecodeError"

\* except json.JSONDecodeError / except Exception as e: both log and return
Caught(o) == o = "JSONDecodeError" \/ o \in {"unhashable", "KeyError", "TypeError"}

\* process_message returns normally, or the exception reaches main
Propagates(o) == Raises(o) /\ ~Caught(o)

\* Variant: the author is counted after the headline is scored.
Counted_AfterScoring(o) == o = "scored"

\* author_counts[author] += 1 is reached for a dict with a hashable author
Counted(o) == o \in {"KeyError", "TypeError", "scored"}

process_message(m) ==
    LET o        == Outcome(m)
        author   == AuthorOf(m)
        weighted == WeightedSentiment(author, m.score)
        status   == Round2(sentiment_status + weighted)
        counter  == message_counter + 1
        range    == CurrentRange(status)
        alert    == ShouldAlert(range, last_alert_range)
        counted  == Increment(author_counts, author)
        summary  == o = "scored" /\ SummaryDue(counter)
    IN  /\ message' = m
        /\ outcome' = o
        /\ pre' = [status |-> sentiment_status, last |-> last_alert_range,
                   counts |-> author_counts, alerts |-> Len(alerts),
                   counter |-> message_counter, summaries |-> summaries]
        /\ author_counts' =
               IF ~Counted(o) THEN author_counts
               ELSE IF summary THEN SummaryRead(counted)
               ELSE counted
        /\ IF o = "scored"
           THEN /\ weighted_sentiment' = weighted
                /\ sentiment_status' = status
                /\ exact_sum' = exact_sum + weighted
                /\ message_counter' = counter
                /\ summaries' = IF summary THEN summaries + 1 ELSE summaries
                /\ current_range' = range
                /\ alerts' = alerts \o AlertTexts(range, alert)
                /\ last_alert_range' = NextAlertRange(range, last_alert_range, alert)
           ELSE /\ weighted_sentiment' = 0
                /\ current_range' = None
                /\ UNCHANGED <<sentiment_status, exact_sum, message_counter,
                               summaries, alerts, last_alert_range>>

\* The globals after process_message(m) is called with the globals st:
\* process_message as a function of the globals and the record.
ReplayStep(st, m) ==
    LET o        == Outcome(m)
        author   == AuthorOf(m)
        weighted == WeightedSentiment(author, m.score)
        status   == Round2(st.status + weighted)
        counter  == st.counter + 1
        range    == CurrentRange(status)
        alert    == ShouldAlert(range, st.last)
        counted  == Increment(st.counts, author)
        summary  == o = "scored" /\ SummaryDue(counter)
        counts   == IF ~Counted(o) THEN st.counts
                    ELSE IF summary THEN SummaryRead(counted)
                    ELSE counted
    IN  IF o = "scored"
        THEN [status |-> status, last |-> NextAlertRange(range, st.last, alert),
              alerts |-> st.alerts \o AlertTexts(range, alert),
              counts |-> counts, counter |-> counter]
        ELSE [st EXCEPT !.counts = counts]

\* The globals after the records of seq are processed in order, from the
\* values the module gives them at import.
RECURSIVE Replay(_)
Replay(seq) ==
    IF seq = <<>>
    THEN [status |-> 0, last |-> None, alerts |-> <<>>, counts |-> <<>>,
          counter |-> 0]
    ELSE ReplayStep(Replay(SubSeq(seq, 1, Len(seq) - 1)), seq[Len(seq)])

\* -------------------------------------------------------------------- main

\* The record is a JSON object that has the "message" field.
Decoded(m) == m.json = "dict" /\ m.text # "absent"

\* for message in consumer: process_message(message.value); an exception
\* that leaves process_message ends the loop in "except Exception".
Receive(m) ==
    /\ process_message(m)
    /\ UNCHANGED frames
    /\ n_records' = n_records + 1
    /\ n_decoded' = IF Decoded(m) THEN n_decoded + 1 ELSE n_decoded
    /\ IF Propagates(Outcome(m))
       THEN pc' = "closed" /\ stop_reason' = "processing error"
       ELSE UNCHANGED <<pc, stop_reason>>

\* The consumer yields any record of the model.
Consume ==
    /\ pc = "polling"
    /\ n_records < MaxRecords
    /\ \E m \in RawMessages : Receive(m)
    /\ UNCHANGED history

\* The frame of every way the loop ends without a record.
Stop(reason) ==
    /\ pc = "polling"
    /\ pc' = "closed"
    /\ stop_reason' = reason
    /\ UNCHANGED <<author_counts, sentiment_status, last_alert_range,
                   message_counter, message, outcome, weighted_sentiment,
                   current_range, pre, alerts, summaries, exact_sum, n_records,
                   n_decoded, history, frames>>

\* except KeyboardInterrupt
Interrupt == Stop("interrupt")

\* the consumer's iterator is exhausted
EndOfStream == Stop("end of stream")

\* except Exception, raised by the consumer's iterator
ConsumerError == Stop("consumer error")

InitPre ==
    [status |-> 0, last |-> None, counts |-> <<>>, alerts |-> 0,
     counter |-> 0, summaries |-> 0]

\* No call of process_message is running for a partition that has had
\* k headlines scored.
IdleFrame(k) ==
    [stage |-> "idle", m |-> NoMessage, weighted |-> 0, acc |-> 0,
     range |-> None, pre |-> InitPre, served |-> k]

Init ==
    /\ author_counts = <<>>
    /\ sentiment_status = 0
    /\ last_alert_range = None
    /\ message_counter = 0
    /\ pc = "polling"
    /\ stop_reason = "none"
    /\ message = NoMessage
    /\ outcome = "none"
    /\ weighted_sentiment = 0
    /\ current_range = None
    /\ pre = InitPre
    /\ alerts = <<>>
    /\ summaries = 0
    /\ exact_sum = 0
    /\ n_records = 0
    /\ n_decoded = 0
    /\ history = <<>>
    /\ frames = [src \in Sources |-> IdleFrame(0)]

Next == Consume \/ Interrupt \/ EndOfStream \/ ConsumerError

Spec == Init /\ [][Next]_vars

\* The consumer yields the records of the scenario.
ConsumeScenario ==
    /\ pc = "polling"
    /\ n_records < MaxScenarioRecords
    /\ \E m \in ScenarioMessages(message_counter) : Receive(m)
    /\ UNCHANGED history

NextScenario == ConsumeScenario \/ Interrupt \/ EndOfStream \/ ConsumerError

SpecScenario == Init /\ [][NextScenario]_vars

\* The consumer yields the records of a long run.
ConsumeLong ==
    /\ pc = "polling"
    /\ n_records < MaxLongRecords
    /\ \E m \in LongMessages : Receive(m)
    /\ UNCHANGED history

NextLong == ConsumeLong \/ Interrupt \/ EndOfStream \/ ConsumerError

SpecLong == Init /\ [][NextLong]_vars

\* The consumer yields the records of a batch, which are remembered.
ConsumeBatch ==
    /\ pc = "polling"
    /\ n_records < MaxBatch
    /\ \E m \in BatchMessages :
         /\ Receive(m)
         /\ history' = Append(history, m)

NextBatch == ConsumeBatch \/ Interrupt \/ EndOfStream \/ ConsumerError

SpecBatch == Init /\ [][NextBatch]_vars

\* ---------------------------------------- process_message, by statement

\* Variant: every partition has a thread of its own that calls
\* process_message.
CanDeliver_PerPartition(src) == frames[src].stage = "idle"

\* main calls process_message inside the body of its one for loop: the
\* consumer is asked for the next record, of whatever partition, only after
\* the call has returned.
CanDeliver(src) == \A s \in Sources : frames[s].stage = "idle"

\* for message in consumer: process_message(message.value), for a record
\* of partition src, up to the statement sentiment_status += ...: the
\* record is parsed, its author counted and its headline scored and
\* weighted.  A record that is not scored is handled to the end.
Deliver(src) ==
    /\ pc = "polling"
    /\ n_records < MaxSerialRecords
    /\ CanDeliver(src)
    /\ UNCHANGED history
    /\ \E m \in SerialMessages :
         IF Outcome(m) = "scored"
         THEN /\ author_counts' = Increment(author_counts, AuthorOf(m))
              /\ n_records' = n_records + 1
              /\ n_decoded' = n_decoded + 1
              /\ frames' = [frames EXCEPT ![src] =
                     [stage |-> "load 153", m |-> m,
                      weighted |-> WeightedSentiment(AuthorOf(m), m.score),
                      acc |-> 0, range |-> None,
                      pre |-> [status |-> sentiment_status,
                               last |-> last_alert_range,
                               counts |-> author_counts,
                               alerts |-> Len(alerts),
                               counter |-> message_counter,
                               summaries |-> summaries],
                      served |-> @.served]]
              /\ UNCHANGED <<sentiment_status, last_alert_range, message_counter,
                             pc, stop_reason, message, outcome, weighted_sentiment,
                             current_range, pre, alerts, summaries, exact_sum>>
         ELSE Receive(m)

\* sentiment_status += weighted_sentiment: the global is read
Load153(src) ==
    /\ frames[src].stage = "load 153"
    /\ frames' = [frames EXCEPT ![src].acc = sentiment_status,
                                ![src].stage = "store 153"]
    /\ UNCHANGED <<author_counts, sentiment_status, last_alert_range,
                   message_counter, pc, stop_reason, message, outcome,
                   weighted_sentiment, current_range, pre, alerts, summaries,
                   exact_sum, n_records, n_decoded, history>>

\* sentiment_status += weighted_sentiment: the sum is written
Store153(src) ==
    /\ frames[src].stage = "store 153"
    /\ sentiment_status' = frames[src].acc + frames[src].weighted
    /\ exact_sum' = exact_sum + frames[src].weighted
    /\ frames' = [frames EXCEPT ![src].stage = "round 154"]
    /\ UNCHANGED <<author_counts, last_alert_range, message_counter, pc,
                   stop_reason, message, outcome, weighted_sentiment,
                   current_range, pre, alerts, summaries, n_records, n_decoded,
                   history>>

\* sentiment_status = round(sentiment_status, 2); message_counter += 1 and
\* the summary every tenth message
Round154(src) ==
    /\ frames[src].stage = "round 154"
    /\ sentiment_status' = Round2(sentiment_status)
    /\ message_counter' = message_counter + 1
    /\ summaries' = IF SummaryDue(message_counter + 1) THEN summaries + 1 ELSE summaries
    /\ author_counts' = IF SummaryDue(message_counter + 1)
                        THEN SummaryRead(author_counts) ELSE author_counts
    /\ frames' = [frames EXCEPT ![src].stage = "classify"]
    /\ UNCHANGED <<last_alert_range, pc, stop_reason, message, outcome,
                   weighted_sentiment, current_range, pre, alerts, exact_sum,
                   n_records, n_decoded, history>>

\* the loop over thresholds: current_range is chosen from sentiment_status
Classify(src) ==
    /\ frames[src].stage = "classify"
    /\ frames' = [frames EXCEPT ![src].range = CurrentRange(sentiment_status),
                                ![src].stage = "decide"]
    /\ UNCHANGED <<author_counts, sentiment_status, last_alert_range,
                   message_counter, pc, stop_reason, message, outcome,
                   weighted_sentiment, current_range, pre, alerts, summaries,
                   exact_sum, n_records, n_decoded, history>>

\* if current_range is not None and last_alert_range != current_range: the
\* alert and last_alert_range = current_range; process_message returns
Decide(src) ==
    /\ frames[src].stage = "decide"
    /\ LET f     == frames[src]
           alert == ShouldAlert(f.range, last_alert_range)
       IN  /\ alerts' = alerts \o AlertTexts(f.range, alert)
           /\ last_alert_range' = NextAlertRange(f.range, last_alert_range, alert)
           /\ message' = f.m
           /\ outcome' = "scored"
           /\ weighted_sentiment' = f.weighted
           /\ current_range' = f.range
           /\ pre' = f.pre
           /\ frames' = [frames EXCEPT ![src] = IdleFrame(f.served + 1)]
    /\ UNCHANGED <<author_counts, sentiment_status, message_counter, pc,
                   stop_reason, summaries, exact_sum, n_records, n_decoded,
                   history>>

\* The loop ends between two records.
StopIdle ==
    /\ \A s \in Sources : frames[s].stage = "idle"
    /\ (Interrupt \/ EndOfStream \/ ConsumerError)

NextSerial ==
    \/ \E src \in Sources : Deliver(src)
    \/ \E src \in Sources : Load153(src)
    \/ \E src \in Sources : Store153(src)
    \/ \E src \in Sources : Round154(src)
    \/ \E src \in Sources : Classify(src)
    \/ \E src \in Sources : Decide(src)
    \/ StopIdle

SpecSerial == Init /\ [][NextSerial]_vars

TypeOK ==
    /\ sentiment_status \in Int
    /\ last_alert_range \in {None, -2, -1, 1, 2}
    /\ pc \in {"polling", "closed"}


\* ----------------------------------------------------------- observations

\* logger.warning(alert_messages[...]) ran in the last call of process_message
AlertFired == Len(alerts) > pre.alerts

\* The band of a total x by the table of the specification; None is neutral.
BandOf(x) ==
    CASE x <= -20000 -> -2
      [] -20000 < x /\ x <= -10000 -> -1
      [] 10000 <= x /\ x <= 20000 -> 1
      [] x > 20000 -> 2
      [] -10000 < x /\ x < 10000 -> None

\* The record had no parseable JSON, no object, or no "message" field.
Malformed(m) == m.json \in {"invalid", "nondict"} \/ (m.json = "dict" /\ m.text = "absent")

RECURSIVE SumOver(_, _)
SumOver(f, keys) ==
    IF keys = {} THEN 0
    ELSE LET k == CHOOSE x \in keys : TRUE
         IN  f[k] + SumOver(f, keys \ {k})

\* sum(author_counts.values())
TotalCount == SumOver(author_counts, DOMAIN author_counts)

Abs(x) == IF x < 0 THEN -x ELSE x

\* ----------------------------------------------------------------- claims

\* C1: for a message that is decoded and scored, an alert is logged in that
\* step exactly when the band of the updated sentiment_status is not neutral
\* and differs from last_alert_range as it was before the step.
C1_AlertIffNewFiredBand ==
    outcome = "scored" =>
        (AlertFired <=> (BandOf(sentiment_status) # None
                         /\ BandOf(sentiment_status) # pre.last))

\* C1 witness: the total was already in a range at the previous message,
\* stays in it, and no alert is logged because that range was the last fired.
C1_Witness ==
    /\ outcome = "scored"
    /\ BandOf(pre.status) = BandOf(sentiment_status)
    /\ BandOf(sentiment_status) # None
    /\ pre.last = BandOf(sentiment_status)
    /\ pre.status # sentiment_status
    /\ ~AlertFired

\* C2: a record that is not JSON, not a JSON object, or an object without
\* the "message" field leaves sentiment_status, last_alert_range and
\* author_counts as they were and logs no alert.
C2_MalformedNeverMutates ==
    Malformed(message) =>
        /\ sentiment_status = pre.status
        /\ last_alert_range = pre.last
        /\ author_counts = pre.counts
        /\ ~AlertFired

\* C3: the sum of author_counts equals the number of records seen so far
\* that parsed as an object containing the "message" field.
C3_SumEqualsDecoded == TotalCount = n_decoded

\* C4: while the range last alerted is B and the total has been neutral,
\* a message that brings the total back into B logs no alert, and a message
\* that brings it into another range logs the alert of that range.
C4_StickyBand ==
    (outcome = "scored" /\ pre.last # None /\ BandOf(pre.status) = None) =>
        /\ BandOf(sentiment_status) = pre.last =>
               (~AlertFired /\ last_alert_range = pre.last)
        /\ BandOf(sentiment_status) \notin {None, pre.last} =>
               /\ AlertFired
               /\ alerts[Len(alerts)] = alert_messages[BandOf(sentiment_status)]

\* C4 witness: B was alerted, the total went neutral and comes back into B
\* without an alert.
C4_Witness ==
    /\ outcome = "scored"
    /\ pre.last # None
    /\ BandOf(pre.status) = None
    /\ BandOf(sentiment_status) = pre.last
    /\ ~AlertFired

\* C4, second case: from neutral the total enters a range other than the
\* one last alerted, a range that was alerted earlier in the run.
C4_OtherBandAgain ==
    /\ outcome = "scored"
    /\ pre.last # None
    /\ BandOf(pre.status) = None
    /\ BandOf(sentiment_status) \notin {None, pre.last}
    /\ AlertFired
    /\ \E i \in 1..pre.alerts : alerts[i] = alert_messages[BandOf(sentiment_status)]

\* C5: last_alert_range changes only in a step that logs an alert, and then
\* becomes the band of that alert; any other step (neutral total, same band,
\* failed message) leaves it as it was.
C5_LastAlertRangeFrame ==
    /\ AlertFired =>
           /\ last_alert_range = BandOf(sentiment_status)
           /\ alerts[Len(alerts)] = alert_messages[last_alert_range]
    /\ ~AlertFired => last_alert_range = pre.last

\* C5 witness: a scored message leaves the total neutral while a range was
\* alerted before; last_alert_range keeps that range.
C5_Witness ==
    /\ outcome = "scored"
    /\ BandOf(sentiment_status) = None
    /\ pre.last # None
    /\ last_alert_range = pre.last
    /\ BandOf(pre.status) # None

\* C6: sentiment_status is a multiple of 0.01 in every state, and every
\* scored message sets it to the multiple of 0.01 nearest to the previous
\* (rounded) value plus the weighted score.
C6_RoundedEveryStep ==
    /\ sentiment_status % Hundredth = 0
    /\ outcome = "scored" =>
           2 * Abs(sentiment_status - (pre.status + weighted_sentiment)) <= Hundredth

\* C6 witness: rounding after every step gave a total that differs from the
\* unrounded sum rounded once.
C6_Witness ==
    /\ outcome = "scored"
    /\ (pre.status + weighted_sentiment) % Hundredth # 0
    /\ 2 * Abs(sentiment_status - exact_sum) > Hundredth

\* C7: the range chosen for sentiment_status is the one of the ordered
\* table, exactly one of the five conditions holds, and -2.0, -1.0, 1.0, 2.0
\* fall in VeryNegative, Negative, Positive, Positive.
C7_BandTable ==
    outcome = "scored" =>
        LET x == sentiment_status
            conds == << x <= -20000,
                        -20000 < x /\ x <= -10000,
                        10000 <= x /\ x <= 20000,
                        x > 20000,
                        -10000 < x /\ x < 10000 >>
            bands == << -2, -1, 1, 2, None >>
        IN  /\ Cardinality({i \in 1..5 : conds[i]}) = 1
            /\ \A i \in 1..5 : conds[i] => current_range = bands[i]
            /\ x = -20000 => current_range = -2
            /\ x = -10000 => current_range = -1
            /\ x = 10000 => current_range = 1
            /\ x = 20000 => current_range = 1

\* C7 witness: the total is exactly 2.0 and the range is Positive.
C7_Witness ==
    /\ outcome = "scored"
    /\ sentiment_status = 20000
    /\ current_range = 1

\* C8: no record ends the loop: after any record process_message has
\* returned and main is polling again; the loop ends only by an interrupt,
\* the end of the stream or an error of the consumer.
C8_NoProcessingErrorIsFatal ==
    /\ stop_reason \in {"none", "interrupt", "end of stream", "consumer error"}
    /\ stop_reason = "none" => pc = "polling"
    /\ pc = "closed" => stop_reason # "none"

\* C8 witness: a record raised inside process_message, and a later record
\* was scored.
C8_Witness ==
    /\ pc = "polling"
    /\ outcome = "scored"
    /\ TotalCount > message_counter
    /\ n_records > TotalCount

\* C9: the weighted sentiment is the score times the configured weight for
\* the five configured authors and the score itself for any other author;
\* a scorable record of any author is scored.
C9_WeightLookupTotal ==
    /\ outcome = "scored" =>
           LET a == IF message.author = Absent THEN "unknown" ELSE message.author
               tenths == CASE a = "Isolde the Daft" -> 4
                           [] a = "Eleanor the Fair" -> 5
                           [] a = "Cedric Sunblade" -> 6
                           [] a = "Tristan Cuthbert" -> 7
                           [] a = "Alaric the Bold" -> 8
                           [] OTHER -> 10
           IN  weighted_sentiment = message.score * tenths
    /\ (message.json = "dict" /\ message.text = "string" /\ message.author # Unhashable)
           => outcome = "scored"

\* C9 witness: a record without author is scored with its raw polarity.
C9_Witness ==
    /\ outcome = "scored"
    /\ message.author = Absent
    /\ message.score # 0
    /\ weighted_sentiment = message.score * PolarityUnit

\* C10: with every author at weight 1.0 the scores 1.0, 1.0, 1.0, -5.0,
\* 1.5, 0.6, 1.0 give the totals 1.00, 2.00, 3.00, -2.00, -0.50, 0.10, 1.10
\* and alerts at messages 1, 3, 4 and 7 for Positive, VeryPositive,
\* VeryNegative and Positive; last_alert_range is VeryNegative after
\* messages 5 and 6.
C10_Scenario ==
    LET totals == <<10000, 20000, 30000, -20000, -5000, 1000, 11000>>
        fired  == <<1, 1, 2, 3, 3, 3, 4>>
        last   == <<1, 1, 2, -2, -2, -2, 1>>
        texts  == <<"bountiful harvest", "grand feast", "mourning", "bountiful harvest">>
        k      == message_counter
    IN  IF k = 0
        THEN sentiment_status = 0 /\ alerts = <<>> /\ last_alert_range = None
        ELSE /\ k <= 7
             /\ sentiment_status = totals[k]
             /\ alerts = SubSeq(texts, 1, fired[k])
             /\ last_alert_range = last[k]

\* C10 witness: the seventh headline is scored, with a malformed record
\* somewhere before it, and the fourth alert is logged.
C10_Witness ==
    /\ message_counter = 7
    /\ outcome = "scored"
    /\ n_records > 7
    /\ sentiment_status = 11000
    /\ AlertFired
    /\ Len(alerts) = 4

\* C12: a record that is decoded but whose headline cannot be scored adds
\* exactly 1 to its author's count and leaves sentiment_status,
\* last_alert_range and message_counter unchanged, with no alert; the loop
\* goes on.
C12_ScoringFailureCountsAuthorOnly ==
    outcome = "TypeError" =>
        LET a == IF message.author = Absent THEN "unknown" ELSE message.author
        IN  /\ a \in DOMAIN author_counts
            /\ author_counts[a] =
                   (IF a \in DOMAIN pre.counts THEN pre.counts[a] ELSE 0) + 1
            /\ DOMAIN author_counts = DOMAIN pre.counts \cup {a}
            /\ \A b \in DOMAIN pre.counts \ {a} : author_counts[b] = pre.counts[b]
            /\ sentiment_status = pre.status
            /\ last_alert_range = pre.last
            /\ message_counter = pre.counter
            /\ ~AlertFired
            /\ stop_reason # "processing error"

\* C12 witness: a non-string headline of an author already counted, while
\* the loop is still polling.
C12_Witness ==
    /\ outcome = "TypeError"
    /\ pc = "polling"
    /\ message.author = "Eve"
    /\ "Eve" \in DOMAIN pre.counts
    /\ author_counts["Eve"] = pre.counts["Eve"] + 1
    /\ message_counter > 0

\* C13: every key of author_counts has a count of at least 1, a key enters
\* at 1, no count decreases, and no read of the table, the periodic summary
\* included, adds a key.
C13_CountsAtLeastOne ==
    /\ \A a \in DOMAIN author_counts : author_counts[a] >= 1
    /\ \A a \in DOMAIN pre.counts :
           a \in DOMAIN author_counts /\ author_counts[a] >= pre.counts[a]
    /\ \A a \in DOMAIN author_counts \ DOMAIN pre.counts : author_counts[a] = 1
    /\ Cardinality(DOMAIN author_counts \ DOMAIN pre.counts) <= 1

\* C13 witness: the step that logs the summary, with two authors counted.
C13_Witness ==
    /\ outcome = "scored"
    /\ summaries = pre.summaries + 1
    /\ Cardinality(DOMAIN author_counts) = 2
    /\ \E a \in DOMAIN author_counts : author_counts[a] >= 2

\* C14: one message logs at most one alert, and an alert is the text that
\* alert_messages holds for the range chosen, one of -2, -1, 1, 2.
C14_OneAlertFromCatalog ==
    /\ Len(alerts) - pre.alerts \in {0, 1}
    /\ AlertFired =>
           /\ current_range \in {-2, -1, 1, 2}
           /\ current_range \in DOMAIN alert_messages
           /\ alerts[Len(alerts)] = alert_messages[current_range]
           /\ alerts[Len(alerts)] =
                  CASE current_range = -2 -> "mourning"
                    [] current_range = -1 -> "black knight"
                    [] current_range = 1 -> "bountiful harvest"
                    [] current_range = 2 -> "grand feast"

\* C14 witness: the alert of the very negative range is logged.
C14_Witness ==
    /\ AlertFired
    /\ current_range = -2
    /\ alerts[Len(alerts)] = "mourning"

\* C16: between two messages, a total that lies in a range has that range
\* as last_alert_range; the two differ only while the total is neutral.
C16_BandIsLastAlerted ==
    BandOf(sentiment_status) # None => last_alert_range = BandOf(sentiment_status)

\* C16 witness: after a failed message the total lies in a range that is
\* not the first one alerted, and last_alert_range is that range.
C16_Witness ==
    /\ outcome \in {"JSONDecodeError", "not_dict", "unhashable", "KeyError", "TypeError"}
    /\ BandOf(sentiment_status) # None
    /\ last_alert_range = BandOf(sentiment_status)
    /\ Len(alerts) >= 2

\* C17: two consecutive alerts never have the same range; last_alert_range
\* is None until the first alert, never None after it, and always the range
\* of the latest alert.
C17_AlertsAlternate ==
    /\ \A i \in 1..(Len(alerts) - 1) : alerts[i] # alerts[i + 1]
    /\ Len(alerts) = 0 <=> last_alert_range = None
    /\ pre.last # None => last_alert_range # None
    /\ Len(alerts) > 0 => alerts[Len(alerts)] = alert_messages[last_alert_range]

\* C17 witness: three alerts, the third for the range of the first.
C17_Witness ==
    /\ Len(alerts) = 3
    /\ alerts[1] = alerts[3]
    /\ AlertFired

\* C18: with polarities in [-1, 1] and the configured weights a message
\* moves the total by at most 1.00, a VeryPositive alert is logged only when
\* last_alert_range is Positive and a VeryNegative alert only when it is
\* Negative.
C18_NoBandSkipped ==
    /\ Abs(sentiment_status - pre.status) <= 10000
    /\ (AlertFired /\ current_range = 2) => pre.last = 1
    /\ (AlertFired /\ current_range = -2) => pre.last = -1

\* C18 witness: the VeryNegative alert, reached from the Negative range by
\* a weighted headline.
C18_Witness ==
    /\ AlertFired
    /\ current_range = -2
    /\ pre.last = -1
    /\ message.author = "Isolde the Daft"

\* C19: message_counter advances by 1 with every scored message and with
\* no other, never exceeds the sum of author_counts, and the summary is
\* logged in exactly the steps in which a scored message brings it to a
\* multiple of 10.
C19_CounterAndSummary ==
    /\ message_counter = pre.counter + (IF outcome = "scored" THEN 1 ELSE 0)
    /\ message_counter <= TotalCount
    /\ message_counter <= n_records
    /\ summaries - pre.summaries \in {0, 1}
    /\ summaries = pre.summaries + 1 <=>
           (outcome = "scored" /\ message_counter % 10 = 0)
    /\ summaries = message_counter \div 10

\* C19 witness: the tenth scored message logs the summary after a failed
\* message was counted.
C19_Witness ==
    /\ outcome = "scored"
    /\ message_counter = 10
    /\ summaries = 1
    /\ pre.summaries = 0
    /\ TotalCount > message_counter

\* C19, after the summary: a failed message arrives while message_counter
\* is still 10 and no second summary is logged.
C19_NoRepeat ==
    /\ outcome \in {"KeyError", "TypeError", "JSONDecodeError"}
    /\ message_counter = 10
    /\ summaries = 1
    /\ pre.summaries = 1

\* The orderings of a sequence of records.
Orderings(seq) ==
    {[i \in 1..Len(seq) |-> seq[p[i]]] : p \in Permutations(1..Len(seq))}

\* C15: whatever the order in which the records of a batch arrive, the
\* final author_counts is the same; the alerts logged depend on the order.
C15_CountsIgnoreOrder ==
    /\ \A seq \in Orderings(history) : Replay(seq).counts = author_counts
    /\ Replay(history).alerts = alerts
    /\ Replay(history).status = sentiment_status

\* C15 witness: a batch of which another ordering gives the same
\* author_counts and other alerts.
C15_Witness ==
    /\ Len(history) >= 3
    /\ DOMAIN author_counts = {"unknown", "Eve"}
    /\ \E seq \in Orderings(history) :
           /\ Replay(seq).alerts # alerts
           /\ Replay(seq).counts = author_counts

\* The partitions whose record is inside process_message.
InFlight == {s \in Sources : frames[s].stage # "idle"}

\* C11: with records of several partitions, at most one call is between
\* reading sentiment_status and deciding the alert; no addition is lost (the
\* value a call adds to is still the global when it writes, and between
\* calls the total is the sum of all weighted scores), and the alert is
\* decided for the range of the total as it is at that moment.
C11_UpdatesSerialized ==
    /\ Cardinality(InFlight) <= 1
    /\ \A s \in InFlight :
           /\ frames[s].stage = "store 153" => frames[s].acc = sentiment_status
           /\ frames[s].stage = "decide" => frames[s].range = BandOf(sentiment_status)
    /\ InFlight = {} =>
           /\ sentiment_status = exact_sum
           /\ BandOf(sentiment_status) # None =>
                  last_alert_range = BandOf(sentiment_status)

\* C11 witness: a record of one partition is at the write of the total
\* after a record of the other partition changed it.
C11_Witness ==
    /\ frames["partition 1"].stage = "store 153"
    /\ frames["partition 0"].served >= 1
    /\ frames["partition 1"].served = 0
    /\ frames["partition 1"].acc = sentiment_status
    /\ sentiment_status # 0
    /\ Len(alerts) >= 1

=============================================================================
